---- MODULE Spec2Model ----
(***************************************************************************)
(* Drive-index discovery of bacula-resource-auto-creator.py: the offline   *)
(* pass, the unload-all pass (Phase 1), the load-and-probe pass (Phase 2)  *)
(* and the final report, run against a model of the changers and drives.   *)
(***************************************************************************)
EXTENDS Integers, Sequences, FiniteSets, TLC

(* ------------------------------ bounds -------------------------------- *)
\* the number of drive candidates the inventory finds
NumCands == 2

(* --------------------------- the inventory ---------------------------- *)
\* libs_byid_nodes_lst, in the order the two phases iterate it
libs_byid_nodes_lst == <<"libA", "libB">>

Libs == {libs_byid_nodes_lst[k] : k \in 1..Len(libs_byid_nodes_lst)}

\* the drive candidates, named by their rank in the by-id listing
Cands == 1..NumCands

\* the changers under test: two libraries, each with one or two transfer
\* elements (numbered from 0) and two storage elements (numbered from 1)
Slots == {1, 2}

DriveIdx == {0, 1}

\* the exit status of a failing mt or mtx command
RcFail == {2}

StandAlone == [lib |-> "none", idx |-> 0]

VARIABLES
  libs_to_skip,          \* the libraries of the inventory named in libs_to_skip
  offline,               \* the 'offline' option
  hwDrives,              \* hardware: number of transfer elements of each library
  bay,                   \* hardware: bay[L][i] = 0 (empty) or the source slot of its tape
  slots,                 \* hardware: slots[L][s] in {"Empty", "Full", "CLN"}
  loc,                   \* hardware: where the drive behind each candidate sits
  saTape,                \* hardware: a stand-alone drive holds a tape
  pc,                    \* position of the script
  li,                    \* position of the 'for lib in libs_byid_nodes_lst' loops
  num_drives,
  drive_index,
  slot,                  \* slot_loaded (Phase 1) / slot (Phase 2)
  pi,                    \* position of 'for drive_byid_node in drive_byid_st_sg_lst'
  drive_byid_st_sg_lst,  \* the candidate pool
  lib_dict,              \* the mapping table: lib_dict[L] = <<(index, candidate), ...>>
  result,                \* the last external command and its exit status
  res_files,             \* the StorageDevice_*.cfg files written, per library
  status_txt,            \* get_random_slot on its own: the mtx status text it is given
  picked,                \* get_random_slot on its own: what the call came to
  slots_at_load,         \* history: the storage elements before the last load (<<>>: none yet)
  exit_status,           \* <<>> while the script runs, <<n>> once the process has exited with n
  lsscsi_txt,            \* the inventory on its own: the lines of 'lsscsi -g | grep'
  byid_txt,              \* the inventory on its own: the lines of 'ls -l <by-id dir> | grep'
  libs_found             \* the inventory on its own: the name libs_byid_nodes_lst, bound or not

vars == <<libs_to_skip, offline, hwDrives, bay, slots, loc, saTape, pc, li,
          num_drives, drive_index, slot, pi, drive_byid_st_sg_lst, lib_dict, result,
          res_files, status_txt, picked, slots_at_load, exit_status,
          lsscsi_txt, byid_txt, libs_found>>

hw == <<hwDrives, bay, slots, loc, saTape>>
cfg == <<libs_to_skip, offline>>
pure == <<status_txt, picked, lsscsi_txt, byid_txt, libs_found>>
aux == <<pure, exit_status>>

lib == libs_byid_nodes_lst[li]

NoCmd == [cmd |-> "none", lib |-> "none", arg |-> 0, rc |-> 0]

Cmd(c, l, a, r) == [cmd |-> c, lib |-> l, arg |-> a, rc |-> r]

NoPick == [outcome |-> "none", rc |-> 0, slot |-> 0, vol |-> <<>>]

(* ----------------------------- hardware ------------------------------- *)
\* the drive status shows the ready marker exactly when a tape is seated
Ready(c) ==
  IF loc[c] = StandAlone THEN saTape[c]
  ELSE bay[loc[c].lib][loc[c].idx] # 0

\* Storage elements the pick pipeline lists: Full, volume tag without CLN
FullSlots(l) == {s \in Slots : slots[l][s] = "Full"}

\* mtx load s i succeeds only from a full slot into an empty bay
CanLoad(l, s, i) == slots[l][s] # "Empty" /\ i < hwDrives[l] /\ bay[l][i] = 0

\* mtx unload s i succeeds only from a full bay into an empty slot
CanUnload(l, s, i) == s \in Slots /\ i < hwDrives[l] /\ bay[l][i] # 0 /\ slots[l][s] = "Empty"

(* ------------------------------- Init --------------------------------- *)
\* two candidates never name the same bay
Injective(f) == \A a, b \in Cands : (a # b /\ f[a] = f[b]) => f[a] = StandAlone

\* the tapes of a library in slot order: data tapes at home, then the homes of
\* the data tapes that sit in a drive, then the cleaning tapes
Rank(x) == CASE x = "Full" -> 1 [] x = "Empty" -> 2 [] OTHER -> 3

\* A changer whose status is consistent: every slot is the home of one tape, an
\* empty slot is the source slot of exactly one loaded transfer element. Slot
\* numbers are interchangeable, so the slots are listed in Rank order and the
\* loaded elements take their source slots in increasing order.
ChangerOk(nd, sl, b) ==
  /\ \A i \in DriveIdx : i >= nd => b[i] = 0
  /\ \A s, u \in Slots : s < u => Rank(sl[s]) <= Rank(sl[u])
  /\ {s \in Slots : sl[s] = "Empty"} = {b[i] : i \in DriveIdx} \ {0}
  /\ \A i, j \in DriveIdx : (i < j /\ b[i] # 0 /\ b[j] # 0) => b[i] < b[j]

Init ==
  /\ libs_to_skip \in SUBSET Libs
  /\ offline \in BOOLEAN
  /\ hwDrives \in [Libs -> 1..Cardinality(DriveIdx)]
  /\ slots \in [Libs -> [Slots -> {"Empty", "Full", "CLN"}]]
  /\ bay \in [Libs -> [DriveIdx -> {0} \cup Slots]]
  /\ \A l \in Libs : ChangerOk(hwDrives[l], slots[l], bay[l])
  /\ loc \in [Cands -> {StandAlone} \cup [lib : Libs, idx : DriveIdx]]
  /\ Injective(loc)
  /\ \A c \in Cands : loc[c] # StandAlone => loc[c].idx < hwDrives[loc[c].lib]
  /\ saTape \in [Cands -> BOOLEAN]
  /\ \A c \in Cands : loc[c] # StandAlone => saTape[c] = FALSE
  /\ pc = "offline"
  /\ li = 1
  /\ num_drives = 0
  /\ drive_index = 0
  /\ slot = 0
  /\ pi = 1
  /\ drive_byid_st_sg_lst = [k \in 1..NumCands |-> k]
  /\ lib_dict = [l \in Libs |-> <<>>]
  /\ result = NoCmd
  /\ res_files = [l \in Libs |-> <<>>]
  /\ status_txt = <<>>
  /\ picked = NoPick
  /\ slots_at_load = <<>>
  /\ exit_status = <<>>
  /\ lsscsi_txt = <<>>
  /\ byid_txt = <<>>
  /\ libs_found = [bound |-> TRUE, lst |-> libs_byid_nodes_lst]

(* --------------------------- control flow ----------------------------- *)
NumLibs == Len(libs_byid_nodes_lst)

\* sys.exit(n): the exit status of the process is the low byte of n
ExitStatus(n) == n % 256

\* chk_cmd_result that exits with status 1 whatever the command returned
chk_cmd_resultExitsOne(c) ==
  /\ c.rc # 0
  /\ pc' = "aborted"
  /\ result' = c
  /\ exit_status' = <<1>>
  /\ UNCHANGED <<cfg, pure, slots_at_load, res_files, hw, li, num_drives, drive_index,
                 slot, pi, drive_byid_st_sg_lst, lib_dict>>

\* chk_cmd_result on a non-zero exit status: log and sys.exit(returncode)
chk_cmd_result(c) ==
  /\ c.rc # 0
  /\ pc' = "aborted"
  /\ result' = c
  /\ exit_status' = <<ExitStatus(c.rc)>>
  /\ UNCHANGED <<cfg, pure, slots_at_load, res_files, hw, li, num_drives, drive_index, slot, pi,
                 drive_byid_st_sg_lst, lib_dict>>

\* P1NextLib that starts Phase 2 as soon as the first library is unloaded
P1NextLibFirstOnly == pc' = "p2_status" /\ li' = 1

\* Phase 1: 'continue' / end of the while loop: the next library, or on to Phase 2
P1NextLib ==
  IF li < NumLibs THEN pc' = "p1_status" /\ li' = li + 1
  ELSE pc' = "p2_status" /\ li' = 1

\* P1While with the loop bound one too low: the last drive is never looked at
P1WhileSkipsLast(di, nd) ==
  /\ drive_index' = di
  /\ IF di < nd - 1 THEN pc' = "p1_loaded" /\ li' = li ELSE P1NextLib

\* Phase 1: 'while drive_index < num_drives' with drive_index = di, num_drives = nd
P1While(di, nd) ==
  /\ drive_index' = di
  /\ IF di < nd THEN pc' = "p1_loaded" /\ li' = li ELSE P1NextLib

\* Phase 2: 'continue' / end of the while loop: the next library, or the report
P2NextLib ==
  IF li < NumLibs THEN pc' = "p2_status" /\ li' = li + 1
  ELSE pc' = "report" /\ li' = li

\* P2While without 'drive_index += 1': the same index is tried again
P2WhileNoAdvance(di, nd) ==
  /\ drive_index' = drive_index
  /\ IF drive_index < nd THEN pc' = "p2_pick" /\ li' = li ELSE P2NextLib

\* Phase 2: 'while drive_index < num_drives' with drive_index = di, num_drives = nd
P2While(di, nd) ==
  /\ drive_index' = di
  /\ IF di < nd THEN pc' = "p2_pick" /\ li' = li ELSE P2NextLib

(* ------------------------ Phase 0: offline ---------------------------- *)
\* 'if offline:' is false, or the for loop over the drives has ended
OfflineSkip ==
  /\ pc = "offline"
  /\ ~offline \/ pi > Len(drive_byid_st_sg_lst)
  /\ pc' = "p1_status"
  /\ pi' = 1
  /\ UNCHANGED <<cfg, aux, slots_at_load, res_files, hw, li, num_drives, drive_index, slot,
                 drive_byid_st_sg_lst, lib_dict, result>>

\* OfflineCmd that passes over every other drive of the list
OfflineCmdSkipsOne ==
  /\ pc = "offline"
  /\ offline
  /\ pi <= Len(drive_byid_st_sg_lst)
  /\ \E rc \in {0} \cup RcFail :
       LET c == Cmd("offline", "none", drive_byid_st_sg_lst[pi], rc) IN
       \/ chk_cmd_result(c)
       \/ /\ rc = 0
          /\ result' = c
          /\ pi' = pi + 2
          /\ UNCHANGED <<cfg, aux, slots_at_load, res_files, hw, pc, li, num_drives, drive_index, slot,
                         drive_byid_st_sg_lst, lib_dict>>

\* mt -f <drive> offline, then chk_cmd_result
OfflineCmd ==
  /\ pc = "offline"
  /\ offline
  /\ pi <= Len(drive_byid_st_sg_lst)
  /\ \E rc \in {0} \cup RcFail :
       LET c == Cmd("offline", "none", drive_byid_st_sg_lst[pi], rc) IN
       \/ chk_cmd_result(c)
       \/ /\ rc = 0
          /\ result' = c
          /\ pi' = pi + 1
          /\ UNCHANGED <<cfg, aux, slots_at_load, res_files, hw, pc, li, num_drives, drive_index, slot,
                         drive_byid_st_sg_lst, lib_dict>>

(* ----------------------- Phase 1: unload all -------------------------- *)
\* mtx status of the library, the drive count, then the libs_to_skip test
P1Status ==
  /\ pc = "p1_status"
  /\ \E rc \in {0} \cup RcFail :
       LET c == Cmd("status", lib, 0, rc) IN
       \/ chk_cmd_result(c)
       \/ /\ rc = 0
          /\ result' = c
          /\ num_drives' = hwDrives[lib]
          /\ IF lib \in libs_to_skip
             THEN P1NextLib /\ UNCHANGED drive_index
             ELSE P1While(0, hwDrives[lib])
          /\ UNCHANGED <<cfg, aux, slots_at_load, res_files, hw, slot, pi, drive_byid_st_sg_lst, lib_dict>>

\* loaded whose loop does not pass an empty drive: no 'drive_index += 1'
loadedNoAdvance ==
  /\ pc = "p1_loaded"
  /\ \E rc \in {0} \cup RcFail :
       LET c == Cmd("status", lib, drive_index, rc) IN
       \/ chk_cmd_result(c)
       \/ /\ rc = 0
          /\ result' = c
          /\ slot' = bay[lib][drive_index]
          /\ IF bay[lib][drive_index] # 0
             THEN pc' = "p1_unload" /\ UNCHANGED <<li, drive_index>>
             ELSE P1While(drive_index, num_drives)
          /\ UNCHANGED <<cfg, aux, slots_at_load, res_files, hw, num_drives, pi, drive_byid_st_sg_lst, lib_dict>>

\* loaded(lib, drive_index): mtx status, then the transfer element's record
loaded ==
  /\ pc = "p1_loaded"
  /\ \E rc \in {0} \cup RcFail :
       LET c == Cmd("status", lib, drive_index, rc) IN
       \/ chk_cmd_result(c)
       \/ /\ rc = 0
          /\ result' = c
          /\ slot' = bay[lib][drive_index]
          /\ IF bay[lib][drive_index] # 0
             THEN pc' = "p1_unload" /\ UNCHANGED <<li, drive_index>>
             ELSE P1While(drive_index + 1, num_drives)
          /\ UNCHANGED <<cfg, aux, slots_at_load, res_files, hw, num_drives, pi, drive_byid_st_sg_lst, lib_dict>>

\* unload(lib, slot, drive): mtx unload, chk_cmd_result, and on success the
\* changer moves the tape of the transfer element back to the slot
unload(c) ==
  \/ chk_cmd_result(c)
  \/ /\ c.rc = 0
     /\ CanUnload(lib, slot, drive_index)
     /\ result' = c
     /\ bay' = [bay EXCEPT ![lib][drive_index] = 0]
     /\ slots' = [slots EXCEPT ![lib][slot] = "Full"]
     /\ UNCHANGED <<cfg, aux, slots_at_load, res_files, hwDrives, loc, saTape, num_drives, slot, pi,
                    drive_byid_st_sg_lst, lib_dict>>
     /\ IF pc = "p1_unload"
        THEN P1While(drive_index + 1, num_drives)
        ELSE P2While(drive_index + 1, num_drives)

\* P1Unload that issues the unload again after a non-zero exit status
P1UnloadRetry ==
  /\ pc = "p1_unload"
  /\ \E rc \in {0} \cup RcFail :
       LET c == Cmd("unload", lib, drive_index, rc) IN
       \/ /\ rc # 0
          /\ result' = c
          /\ UNCHANGED <<cfg, aux, slots_at_load, res_files, hw, pc, li, num_drives, drive_index, slot, pi,
                         drive_byid_st_sg_lst, lib_dict>>
       \/ rc = 0 /\ unload(c)

\* unload(lib, slot_loaded, drive_index); drive_index += 1
P1Unload ==
  /\ pc = "p1_unload"
  /\ \E rc \in {0} \cup RcFail : unload(Cmd("unload", lib, drive_index, rc))

(* --------------------- Phase 2: load and probe ------------------------ *)
\* P2Status without the libs_to_skip test
P2StatusNoSkip ==
  /\ pc = "p2_status"
  /\ \E rc \in {0} \cup RcFail :
       LET c == Cmd("status", lib, 0, rc) IN
       \/ chk_cmd_result(c)
       \/ /\ rc = 0
          /\ result' = c
          /\ num_drives' = hwDrives[lib]
          /\ P2While(0, hwDrives[lib])
          /\ UNCHANGED <<cfg, aux, slots_at_load, res_files, hw, slot, pi, drive_byid_st_sg_lst, lib_dict>>

\* P2Status that keeps the drive count of the library processed before
P2StatusStaleCount ==
  /\ pc = "p2_status"
  /\ \E rc \in {0} \cup RcFail :
       LET c == Cmd("status", lib, 0, rc) IN
       \/ chk_cmd_result(c)
       \/ /\ rc = 0
          /\ result' = c
          /\ UNCHANGED num_drives
          /\ IF lib \in libs_to_skip
             THEN P2NextLib /\ UNCHANGED drive_index
             ELSE P2While(0, num_drives)
          /\ UNCHANGED <<cfg, aux, slots_at_load, res_files, hw, slot, pi, drive_byid_st_sg_lst, lib_dict>>

\* mtx status of the library, the drive count, then the libs_to_skip test
P2Status ==
  /\ pc = "p2_status"
  /\ \E rc \in {0} \cup RcFail :
       LET c == Cmd("status", lib, 0, rc) IN
       \/ chk_cmd_result(c)
       \/ /\ rc = 0
          /\ result' = c
          /\ num_drives' = hwDrives[lib]
          /\ IF lib \in libs_to_skip
             THEN P2NextLib /\ UNCHANGED drive_index
             ELSE P2While(0, hwDrives[lib])
          /\ UNCHANGED <<cfg, aux, slots_at_load, res_files, hw, slot, pi, drive_byid_st_sg_lst, lib_dict>>

\* exit status of 'mtx status | grep Storage Element..:Full | grep -v CLN':
\* that of the last grep, 0 when it selects a line and 1 when it selects none
PickStatus(full) == IF full = {} THEN 1 ELSE 0

\* get_random_slot(lib): the listing is checked by chk_cmd_result, then randint
get_random_slot ==
  /\ pc = "p2_pick"
  /\ \E full \in {FullSlots(lib), {}} :
       LET c == Cmd("pick", lib, drive_index, PickStatus(full)) IN
       \/ chk_cmd_result(c)
       \/ /\ c.rc = 0
          /\ result' = c
          /\ \E s \in full : slot' = s
          /\ pc' = "p2_load"
          /\ UNCHANGED <<cfg, aux, slots_at_load, res_files, hw, li, num_drives, drive_index, pi,
                         drive_byid_st_sg_lst, lib_dict>>

\* P2Load that does not check the exit status of the load
P2LoadNoCheck ==
  /\ pc = "p2_load"
  /\ \E rc \in {0} \cup RcFail :
       /\ result' = Cmd("load", lib, drive_index, rc)
       /\ IF rc = 0 /\ CanLoad(lib, slot, drive_index)
          THEN /\ bay' = [bay EXCEPT ![lib][drive_index] = slot]
               /\ slots' = [slots EXCEPT ![lib][slot] = "Empty"]
          ELSE rc # 0 /\ UNCHANGED <<bay, slots>>
       /\ pc' = "p2_sleep"
       /\ slots_at_load' = slots
       /\ UNCHANGED <<cfg, aux, res_files, hwDrives, loc, saTape, li, num_drives, drive_index,
                      slot, pi, drive_byid_st_sg_lst, lib_dict>>

\* P2Load that goes on to the probe loop without the sleep
P2LoadNoSleep ==
  /\ pc = "p2_load"
  /\ \E rc \in {0} \cup RcFail :
       LET c == Cmd("load", lib, drive_index, rc) IN
       \/ chk_cmd_result(c)
       \/ /\ rc = 0
          /\ CanLoad(lib, slot, drive_index)
          /\ result' = c
          /\ bay' = [bay EXCEPT ![lib][drive_index] = slot]
          /\ slots' = [slots EXCEPT ![lib][slot] = "Empty"]
          /\ pc' = "p2_probe"
          /\ pi' = 1
          /\ slots_at_load' = slots
          /\ UNCHANGED <<cfg, aux, res_files, hwDrives, loc, saTape, li, num_drives,
                         drive_index, slot, drive_byid_st_sg_lst, lib_dict>>

\* mtx load slot drive_index, then chk_cmd_result
P2Load ==
  /\ pc = "p2_load"
  /\ \E rc \in {0} \cup RcFail :
       LET c == Cmd("load", lib, drive_index, rc) IN
       \/ chk_cmd_result(c)
       \/ /\ rc = 0
          /\ CanLoad(lib, slot, drive_index)
          /\ result' = c
          /\ bay' = [bay EXCEPT ![lib][drive_index] = slot]
          /\ slots' = [slots EXCEPT ![lib][slot] = "Empty"]
          /\ pc' = "p2_sleep"
          /\ slots_at_load' = slots
          /\ UNCHANGED <<cfg, aux, res_files, hwDrives, loc, saTape, li, num_drives, drive_index,
                         slot, pi, drive_byid_st_sg_lst, lib_dict>>

\* sleep(sleep_secs), then the for loop over the pool starts
P2Sleep ==
  /\ pc = "p2_sleep"
  /\ pc' = "p2_probe"
  /\ pi' = 1
  /\ UNCHANGED <<cfg, aux, slots_at_load, res_files, hw, li, num_drives, drive_index, slot,
                 drive_byid_st_sg_lst, lib_dict, result>>

\* Remove that leaves the matched candidate in the pool
RemoveNothing(seq, k) == seq

\* Remove that takes the first candidate of the pool, whichever matched
RemoveFirst(seq, k) == Tail(seq)

\* drive_byid_st_sg_lst.remove(drive_byid_node)
Remove(seq, k) == [j \in 1..(Len(seq) - 1) |-> IF j < k THEN seq[j] ELSE seq[j + 1]]

\* P2Probe that takes a non-zero exit status of mt status as 'not ready'
P2ProbeAbsorbs ==
  /\ pc = "p2_probe"
  /\ pi <= Len(drive_byid_st_sg_lst)
  /\ \E rc \in {0} \cup RcFail :
       LET cand == drive_byid_st_sg_lst[pi] IN
       /\ result' = Cmd("probe", lib, cand, rc)
       /\ IF rc = 0 /\ Ready(cand)
          THEN /\ lib_dict' = [lib_dict EXCEPT ![lib] = Append(@, <<drive_index, cand>>)]
               /\ drive_byid_st_sg_lst' = Remove(drive_byid_st_sg_lst, pi)
               /\ pc' = "p2_unload"
               /\ UNCHANGED pi
          ELSE /\ pi' = pi + 1
               /\ UNCHANGED <<pc, lib_dict, drive_byid_st_sg_lst>>
       /\ UNCHANGED <<cfg, aux, slots_at_load, res_files, hw, li, num_drives, drive_index, slot>>

\* P2Probe that drops a candidate found not ready from the pool
P2ProbeDropsNotReady ==
  /\ pc = "p2_probe"
  /\ pi <= Len(drive_byid_st_sg_lst)
  /\ \E rc \in {0} \cup RcFail :
       LET cand == drive_byid_st_sg_lst[pi]
           c == Cmd("probe", lib, cand, rc) IN
       \/ chk_cmd_result(c)
       \/ /\ rc = 0
          /\ result' = c
          /\ IF Ready(cand)
             THEN /\ lib_dict' = [lib_dict EXCEPT ![lib] = Append(@, <<drive_index, cand>>)]
                  /\ drive_byid_st_sg_lst' = Remove(drive_byid_st_sg_lst, pi)
                  /\ pc' = "p2_unload"
                  /\ UNCHANGED pi
             ELSE /\ drive_byid_st_sg_lst' = Remove(drive_byid_st_sg_lst, pi)
                  /\ UNCHANGED <<pc, pi, lib_dict>>
          /\ UNCHANGED <<cfg, aux, slots_at_load, res_files, hw, li, num_drives, drive_index, slot>>

\* one pass of the probe loop: mt status of the next candidate, the ready test,
\* and on a match the new lib_dict entry and the removal from the pool
P2Probe ==
  /\ pc = "p2_probe"
  /\ pi <= Len(drive_byid_st_sg_lst)
  /\ \E rc \in {0} \cup RcFail :
       LET cand == drive_byid_st_sg_lst[pi]
           c == Cmd("probe", lib, cand, rc) IN
       \/ chk_cmd_result(c)
       \/ /\ rc = 0
          /\ result' = c
          /\ IF Ready(cand)
             THEN /\ lib_dict' = [lib_dict EXCEPT ![lib] = Append(@, <<drive_index, cand>>)]
                  /\ drive_byid_st_sg_lst' = Remove(drive_byid_st_sg_lst, pi)
                  /\ pc' = "p2_unload"
                  /\ UNCHANGED pi
             ELSE /\ pi' = pi + 1
                  /\ UNCHANGED <<pc, lib_dict, drive_byid_st_sg_lst>>
          /\ UNCHANGED <<cfg, aux, slots_at_load, res_files, hw, li, num_drives, drive_index, slot>>

\* P2NoMatch that treats an index without a match as fatal
P2NoMatchAbort ==
  /\ pc = "p2_probe"
  /\ pi > Len(drive_byid_st_sg_lst)
  /\ pc' = "aborted"
  /\ UNCHANGED <<cfg, aux, slots_at_load, res_files, hw, li, num_drives, drive_index, slot, pi,
                 drive_byid_st_sg_lst, lib_dict, result>>

\* the probe loop ends without a match: drive_index += 1
P2NoMatch ==
  /\ pc = "p2_probe"
  /\ pi > Len(drive_byid_st_sg_lst)
  /\ P2While(drive_index + 1, num_drives)
  /\ UNCHANGED <<cfg, aux, slots_at_load, res_files, hw, num_drives, slot, pi, drive_byid_st_sg_lst, lib_dict, result>>

\* P2Unload that leaves the tape in the drive and goes on to the next index
P2UnloadSkipped ==
  /\ pc = "p2_unload"
  /\ P2While(drive_index + 1, num_drives)
  /\ UNCHANGED <<cfg, aux, slots_at_load, res_files, hw, num_drives, slot, pi,
                 drive_byid_st_sg_lst, lib_dict, result>>

\* unload(lib, slot, drive_index); break; drive_index += 1
P2Unload ==
  /\ pc = "p2_unload"
  /\ \E rc \in {0} \cup RcFail : unload(Cmd("unload", lib, drive_index, rc))

(* ------------------------------ report -------------------------------- *)
RECURSIVE Insert(_, _)
Insert(x, seq) ==
  IF seq = <<>> THEN <<x>>
  ELSE IF x <= Head(seq) THEN <<x>> \o seq
  ELSE <<Head(seq)>> \o Insert(x, Tail(seq))

\* a sort that leaves the list in descending order
Reversed(seq) == [k \in 1..Len(seq) |-> seq[Len(seq) + 1 - k]]

RECURSIVE Sort(_)
\* drive_byid_st_sg_lst.sort()
Sort(seq) == IF seq = <<>> THEN <<>> ELSE Insert(Head(seq), Sort(Tail(seq)))

\* the final report: the mappings, then the sorted stand-alone drives
Report ==
  /\ pc = "report"
  /\ drive_byid_st_sg_lst' = Sort(drive_byid_st_sg_lst)
  /\ pc' = "render"
  /\ UNCHANGED <<cfg, aux, slots_at_load, res_files, hw, li, num_drives, drive_index, slot, pi, lib_dict, result>>

(* ----------------------------- rendering ------------------------------ *)
\* 'for index_byid_st_sg_tuple in lib_dict[lib]: if tuple[0] == dev:' sets
\* archive_device and control_device from the tuple of index dev; with no such
\* tuple both keep the value ad they had (0: not bound yet)
Lookup(l, dev, ad) ==
  LET hits == {k \in 1..Len(lib_dict[l]) : lib_dict[l][k][1] = dev} IN
  IF hits = {} THEN ad
  ELSE lib_dict[l][CHOOSE k \in hits : \A j \in hits : j <= k][2]

\* a Storage Device resource file: DriveIndex = dev, ArchiveDevice and
\* ControlDevice the by-id node and the sg node of candidate c
DeviceRes(dev, c) == [DriveIndex |-> dev, ArchiveDevice |-> c, ControlDevice |-> c]

RECURSIVE RenderDevs(_, _, _, _)
\* 'dev = 0; while dev < len(lib_dict[lib])' from dev on: the files written,
\* the last archive_device, and whether line 760 found the name bound
RenderDevs(l, dev, ad, files) ==
  IF dev >= Len(lib_dict[l]) THEN [files |-> files, ad |-> ad, ok |-> TRUE]
  ELSE LET c == Lookup(l, dev, ad) IN
       IF c = 0 THEN [files |-> files, ad |-> ad, ok |-> FALSE]
       ELSE RenderDevs(l, dev + 1, c, Append(files, DeviceRes(dev, c)))

RECURSIVE RenderLibs(_, _, _)
\* 'for lib in lib_dict' from the j-th library on; a library without a
\* SlotMapping is no key of lib_dict; archive_device is a global of the script
RenderLibs(j, ad, out) ==
  IF j > NumLibs THEN [out |-> out, ok |-> TRUE]
  ELSE LET l == libs_byid_nodes_lst[j]
           r == RenderDevs(l, 0, ad, <<>>) IN
       IF r.ok THEN RenderLibs(j + 1, r.ad, [out EXCEPT ![l] = r.files])
       ELSE [out |-> [out EXCEPT ![l] = r.files], ok |-> FALSE]

\* the resource files of every library of lib_dict; an unbound archive_device
\* is a NameError that ends the script with a traceback
Render ==
  /\ pc = "render"
  /\ LET r == RenderLibs(1, 0, res_files) IN
       /\ res_files' = r.out
       /\ pc' = IF r.ok THEN "done" ELSE "crashed"
       /\ exit_status' = IF r.ok THEN <<0>> ELSE <<1>>
  /\ UNCHANGED <<cfg, pure, slots_at_load, hw, li, num_drives, drive_index, slot, pi,
                 drive_byid_st_sg_lst, lib_dict, result>>

Next ==
  \/ OfflineSkip
  \/ OfflineCmd
  \/ P1Status
  \/ loaded
  \/ P1Unload
  \/ P2Status
  \/ get_random_slot
  \/ P2Load
  \/ P2Sleep
  \/ P2Probe
  \/ P2NoMatch
  \/ P2Unload
  \/ Report
  \/ Render

Spec == Init /\ [][Next]_vars

\* The runs with the offline option set. A run without the option is such a
\* run from the end of the offline pass on: nothing after the pass reads the
\* option, and the pass changes nothing that is read later.
InitOffline == Init /\ offline

\* the script is one sequential process and every external command returns:
\* a step that can be taken is taken
FairSpec == InitOffline /\ [][Next]_vars /\ WF_vars(Next)

(* ------------------- get_random_slot on its own ----------------------- *)
\* storage element numbers as mtx prints them: one to four digits
SlotNos == {7, 42, 100, 1000}

\* the number of decimal digits of a storage element number
Digits(n) == IF n < 10 THEN 1 ELSE IF n < 100 THEN 2 ELSE IF n < 1000 THEN 3 ELSE 4

\* the volume tag printed for element n: a data label or a cleaning label
VolumeTag(txt, n) == <<txt[n], n>>

\* grep "Storage Element [0-9]\{1,3\}:Full": the Full elements of up to three digits
GrepFull(txt) == {n \in DOMAIN txt : txt[n] # "Empty" /\ Digits(n) <= 3}

\* grep -v "CLN": the lines that do not hold CLN
GrepNotCln(txt, lines) == {n \in lines : txt[n] # "CLN"}

\* re.findall('Storage Element [0-9].?:Full.* ', stdout): [0-9].? takes one or
\* two characters before ':Full', so a line of a three-digit element has no match
FindAll(lines) == {n \in lines : Digits(n) <= 2}

\* the state of the script is of no account here
InitPick ==
  /\ status_txt \in [SlotNos -> {"Empty", "TAPE", "CLN"}]
  /\ picked = NoPick
  /\ pc = "pick_call"
  /\ libs_to_skip = {}
  /\ offline = FALSE
  /\ hwDrives = [l \in Libs |-> 1]
  /\ slots = [l \in Libs |-> [s \in Slots |-> "Full"]]
  /\ bay = [l \in Libs |-> [i \in DriveIdx |-> 0]]
  /\ loc = [c \in Cands |-> StandAlone]
  /\ saTape = [c \in Cands |-> FALSE]
  /\ li = 1
  /\ num_drives = 0
  /\ drive_index = 0
  /\ slot = 0
  /\ pi = 1
  /\ drive_byid_st_sg_lst = [k \in 1..NumCands |-> k]
  /\ lib_dict = [l \in Libs |-> <<>>]
  /\ result = NoCmd
  /\ res_files = [l \in Libs |-> <<>>]
  /\ slots_at_load = <<>>
  /\ exit_status = <<>>
  /\ lsscsi_txt = <<>>
  /\ byid_txt = <<>>
  /\ libs_found = [bound |-> TRUE, lst |-> libs_byid_nodes_lst]

\* one call of get_random_slot on the text status_txt: the pipeline and its
\* exit status checked by chk_cmd_result, re.findall, randint, the two re.sub
PickCall ==
  /\ pc = "pick_call"
  /\ LET lines == GrepNotCln(status_txt, GrepFull(status_txt))
         full_slots_lst == FindAll(lines) IN
       IF PickStatus(lines) # 0
       THEN /\ picked' = [outcome |-> "exit", rc |-> PickStatus(lines), slot |-> 0, vol |-> <<>>]
            /\ exit_status' = <<ExitStatus(PickStatus(lines))>>
       ELSE IF full_slots_lst = {}
       THEN /\ picked' = [outcome |-> "ValueError", rc |-> 0, slot |-> 0, vol |-> <<>>]
            /\ exit_status' = <<1>>
       ELSE /\ \E n \in full_slots_lst :
                 picked' = [outcome |-> "slot", rc |-> 0, slot |-> n,
                            vol |-> VolumeTag(status_txt, n)]
            /\ UNCHANGED exit_status
  /\ pc' = "pick_done"
  /\ UNCHANGED <<cfg, hw, res_files, status_txt, slots_at_load, li, num_drives,
                 drive_index, slot, pi, drive_byid_st_sg_lst, lib_dict, result,
                 lsscsi_txt, byid_txt, libs_found>>

NextPick == PickCall

SpecPick == InitPick /\ [][NextPick]_vars

(* ------------------- the inventory on its own -------------------------- *)
\* A line of lsscsi_txt is <<type, n>>: a device of that type with generic
\* node /dev/sg<n>. A line of byid_txt is <<name, kind, n>>: the symlink
\* 'name -> ../../<kind><n>'. A text that is one by-id name is << <<name>> >>.
LsscsiLines == << <<"mediumx", 3>>, <<"mediumx", 4>>, <<"tape", 5>> >>
ByidLines == << <<"chgA", "sg", 3>>, <<"chgB", "sg", 4>>, <<"chgC", "sg", 30>>,
                <<"drv-nst", "nst", 0>> >>

\* the non-empty texts made of lines of all, in the order of all
Listings(all) ==
  {SelectSeq(all, LAMBDA ln : ln \in S) :
     S \in (SUBSET {all[k] : k \in 1..Len(all)}) \ {{}}}

\* the name libs_byid_nodes_lst before line 540 has run
Unbound == [bound |-> FALSE, lst |-> <<>>]

RECURSIVE HasPrefix(_, _)
\* the decimal digits of p start those of n
HasPrefix(n, p) == n = p \/ (n >= 10 /\ HasPrefix(n \div 10, p))

\* re.findall(r'.* mediumx .*/(sg\d{1,3})', lsscsi_txt)
FindLibs(txt) ==
  LET med == SelectSeq(txt, LAMBDA ln : ln[1] = "mediumx") IN
  [k \in 1..Len(med) |-> med[k][2]]

\* re.sub('.* (.+?) ->.*/' + lib_sg + '.*', '\\1', byid_txt, flags = re.DOTALL):
\* the name before the arrow of the last line whose target has '/' + lib_sg in
\* it, and byid_txt as it is when no line has
ReSub(lib_sg, txt) ==
  LET hits == {k \in 1..Len(txt) : txt[k][2] = "sg" /\ HasPrefix(txt[k][3], lib_sg)} IN
  IF hits = {} THEN txt
  ELSE LET k == CHOOSE h \in hits : \A g \in hits : g <= h IN << <<txt[k][1]>> >>

InitInv ==
  /\ lsscsi_txt \in Listings(LsscsiLines)
  /\ byid_txt \in Listings(ByidLines)
  /\ libs_found = Unbound
  /\ offline \in BOOLEAN
  /\ pc = "inventory"
  /\ libs_to_skip = {}
  /\ hwDrives = [l \in Libs |-> 1]
  /\ slots = [l \in Libs |-> [s \in Slots |-> "Full"]]
  /\ bay = [l \in Libs |-> [i \in DriveIdx |-> 0]]
  /\ loc = [c \in Cands |-> StandAlone]
  /\ saTape = [c \in Cands |-> FALSE]
  /\ li = 1
  /\ num_drives = 0
  /\ drive_index = 0
  /\ slot = 0
  /\ pi = 1
  /\ drive_byid_st_sg_lst = [k \in 1..NumCands |-> k]
  /\ lib_dict = [l \in Libs |-> <<>>]
  /\ result = NoCmd
  /\ res_files = [l \in Libs |-> <<>>]
  /\ status_txt = <<>>
  /\ picked = NoPick
  /\ slots_at_load = <<>>
  /\ exit_status = <<>>

\* libs_sg_lst, num_libs, and under 'if num_libs != 0:' the list of the
\* libraries' by-id nodes
InvLibraries ==
  /\ pc = "inventory"
  /\ LET libs_sg_lst == FindLibs(lsscsi_txt)
         num_libs == Len(libs_sg_lst) IN
       libs_found' = IF num_libs # 0
                     THEN [bound |-> TRUE,
                           lst |-> [k \in 1..num_libs |-> ReSub(libs_sg_lst[k], byid_txt)]]
                     ELSE libs_found
  /\ pc' = "offline"
  /\ UNCHANGED <<cfg, hw, res_files, status_txt, picked, slots_at_load, exit_status, li,
                 num_drives, drive_index, slot, pi, drive_byid_st_sg_lst, lib_dict, result,
                 lsscsi_txt, byid_txt>>

\* 'for lib in libs_byid_nodes_lst:' of Phase 1 and the first statement of its
\* body: a NameError when the name is not bound, else mtx status of the first
\* library of the list
InvPhase1 ==
  /\ pc = "p1_status"
  /\ IF ~libs_found.bound
     THEN /\ pc' = "crashed"
          /\ exit_status' = <<1>>
          /\ UNCHANGED <<cfg, pure, slots_at_load, res_files, hw, li, num_drives, drive_index,
                         slot, pi, drive_byid_st_sg_lst, lib_dict, result>>
     ELSE \E rc \in {0} \cup RcFail :
            LET c == Cmd("status", libs_found.lst[1], 0, rc) IN
            \/ chk_cmd_result(c)
            \/ /\ rc = 0
               /\ result' = c
               /\ pc' = "inv_status"
               /\ UNCHANGED <<cfg, aux, slots_at_load, res_files, hw, li, num_drives,
                              drive_index, slot, pi, drive_byid_st_sg_lst, lib_dict>>

NextInv ==
  \/ InvLibraries
  \/ OfflineSkip
  \/ OfflineCmd
  \/ InvPhase1

SpecInv == InitInv /\ [][NextInv]_vars


(* ====================================================================== *)
(*                              the claims                                *)
(* ====================================================================== *)
Range(seq) == {seq[k] : k \in 1..Len(seq)}

\* the candidates recorded in the SlotMappings of library l
Mapped(l) == {lib_dict[l][k][2] : k \in 1..Len(lib_dict[l])}

RECURSIVE SumLen(_)
SumLen(S) == IF S = {} THEN 0
             ELSE LET l == CHOOSE x \in S : TRUE IN Len(lib_dict[l]) + SumLen(S \ {l})

(* C1: every recorded SlotMapping (i, c) of a library L names the candidate *)
(* whose physical drive sits in bay i of L, whatever the initial hardware   *)
(* state (a stand-alone drive or a drive of a skipped library may hold a    *)
(* tape).                                                                   *)
C1_MappingIsPhysicalBay ==
  \A l \in Libs : \A k \in 1..Len(lib_dict[l]) :
    loc[lib_dict[l][k][2]] = [lib |-> l, idx |-> lib_dict[l][k][1]]

(* C2: in every reachable state the mapped candidates of all libraries and  *)
(* the candidates in the pool partition the original pool: none is in two   *)
(* SlotMappings, none is mapped and residual, none is lost.                 *)
C2_Partition ==
  /\ Range(drive_byid_st_sg_lst) \cup UNION {Mapped(l) : l \in Libs} = Cands
  /\ Len(drive_byid_st_sg_lst) + SumLen(Libs) = NumCands

\* a completed run with a mapped candidate and a residual one
C2_Witness ==
  /\ pc = "done"
  /\ Len(drive_byid_st_sg_lst) = 1
  /\ SumLen(Libs) = NumCands - 1

(* C3: when Phase 1 completes without abort, every transfer element of      *)
(* every library not in the skip set is empty.                              *)
Phase1Complete == pc = "p2_status" /\ li = 1

C3_Phase1LeavesDrivesEmpty ==
  Phase1Complete =>
    \A l \in Libs \ libs_to_skip : \A i \in 0..(hwDrives[l] - 1) : bay[l][i] = 0

\* Phase 1 completes and its last command was the unload of a loaded drive
C3_Witness == Phase1Complete /\ result.cmd = "unload" /\ libs_to_skip = {}

(* C4: the SlotMappings of every library carry strictly increasing indices, *)
(* each in [0, num_drives of the library); an index without a match is      *)
(* absent and later indices are recorded under their own index.             *)
C4_IndicesIncreasing ==
  \A l \in Libs :
    /\ \A k \in 1..Len(lib_dict[l]) : lib_dict[l][k][1] \in 0..(hwDrives[l] - 1)
    /\ \A k \in 1..(Len(lib_dict[l]) - 1) : lib_dict[l][k][1] < lib_dict[l][k + 1][1]

\* a gap: index 0 of a library is unmapped and index 1 is mapped
C4_Witness == \E l \in Libs : Len(lib_dict[l]) = 1 /\ lib_dict[l][1][1] = 1

(* C5: when the slot pick of a library finds no occupied non-cleaning      *)
(* storage slot, the engine stops iterating that library without aborting:  *)
(* the run goes on with the next library, or with the final report.         *)
C5_NoSlotEndsLibraryWithoutAbort ==
  [][(pc = "p2_pick" /\ FullSlots(lib) = {}) =>
       (pc' = IF li < NumLibs THEN "p2_status" ELSE "report")]_vars

(* C6: if a load exits non-zero at index i of library L, the run terminates *)
(* there; the mapping table is left as it was and holds no SlotMapping for  *)
(* (L, i), for a later index of L, or for a library processed after L.      *)
C6_LoadFailureEndsRun ==
  [][(pc = "p2_load" /\ result'.cmd = "load" /\ result'.rc # 0) =>
       /\ pc' = "aborted"
       /\ lib_dict' = lib_dict
       /\ \A k \in 1..Len(lib_dict'[lib]) : lib_dict'[lib][k][1] < drive_index
       /\ \A j \in (li + 1)..NumLibs : lib_dict'[libs_byid_nodes_lst[j]] = <<>>]_vars

\* a load fails in a library that already has a SlotMapping
C6_Witness ==
  /\ pc = "aborted"
  /\ result.cmd = "load"
  /\ lib_dict[lib] # <<>>

(* C7: after an offline, unload or load command returns a non-zero exit     *)
(* status no further command of any kind is issued: the run takes no step,  *)
(* and the failed command is not retried.                                   *)
C7_NoCommandAfterFailure ==
  [][(result.cmd \in {"offline", "unload", "load"} /\ result.rc # 0) => UNCHANGED vars]_vars

\* an unload of Phase 1 has failed
C7_Witness ==
  /\ result.cmd = "unload"
  /\ result.rc # 0
  /\ lib_dict = [l \in Libs |-> <<>>]

(* C8: if every candidate of the pool was probed for index i and none was   *)
(* ready, the run does not abort: no SlotMapping is recorded, the pool is   *)
(* unchanged, and the engine goes on to index i+1, or to the next library   *)
(* (the report after the last one) when i+1 is the drive count.             *)
C8_NoMatchAdvances ==
  [][(pc = "p2_probe" /\ pi > Len(drive_byid_st_sg_lst)) =>
       /\ lib_dict' = lib_dict
       /\ drive_byid_st_sg_lst' = drive_byid_st_sg_lst
       /\ IF drive_index + 1 < num_drives
          THEN pc' = "p2_pick" /\ drive_index' = drive_index + 1 /\ li' = li
          ELSE IF li < NumLibs THEN pc' = "p2_status" /\ li' = li + 1
          ELSE pc' = "report"]_vars

\* index 0 of a library had no match among the probed candidates; index 1 is next
C8_Witness ==
  /\ pc = "p2_pick"
  /\ drive_index = 1
  /\ result.cmd = "probe"
  /\ lib_dict[lib] = <<>>
  /\ Len(drive_byid_st_sg_lst) = NumCands

C10_SkippedLibraryUntouched ==
  /\ result.cmd \in {"load", "unload"} => result.lib \notin libs_to_skip
  /\ \A l \in libs_to_skip : lib_dict[l] = <<>>

\* a completed run that skipped a library with a loaded drive and mapped another
C10_Witness ==
  /\ pc = "done"
  /\ \E l \in libs_to_skip : bay[l][0] # 0
  /\ \E l \in Libs : lib_dict[l] # <<>>

(* C11: with the offline option set, the offline pass sends one offline      *)
(* command to each candidate of the pool, in pool order, and the run leaves  *)
(* the pass only after the last one; no offline command is issued after the  *)
(* pass, and no unload or load before its end. With the option not set no    *)
(* offline command is ever issued.                                           *)
C11_OfflinePass ==
  /\ [](~offline => result.cmd # "offline")
  /\ [](pc = "offline" => result.cmd \in {"none", "offline"})
  /\ [][
        /\ (pc = "offline" /\ offline /\ pc' # "aborted") =>
              (IF pi <= NumCands
               THEN /\ result' = Cmd("offline", "none", drive_byid_st_sg_lst[pi], 0)
                    /\ drive_byid_st_sg_lst[pi] = pi
                    /\ pi' = pi + 1
                    /\ pc' = "offline"
               ELSE pc' = "p1_status" /\ result' = result)
        /\ (pc = "offline" /\ ~offline) => (pc' = "p1_status" /\ result' = result)
        /\ (pc # "offline") => (result'.cmd # "offline")
     ]_vars

\* the pass is over: the last command went to the last candidate of the pool
C11_Witness ==
  /\ offline
  /\ pc = "p1_status"
  /\ result = Cmd("offline", "none", NumCands, 0)

(* C12: after a successful load the settle wait takes place once, and the   *)
(* probe loop of the index starts only after it: the wait follows a load    *)
(* that exited 0 and nothing else, the first probe follows the wait, and no *)
(* drive-status probe is issued anywhere else.                              *)
C12_SettleWaitBeforeProbe ==
  [][
     /\ (pc = "p2_load" /\ pc' # "aborted") =>
           (pc' = "p2_sleep" /\ result' = Cmd("load", lib, drive_index, 0))
     /\ (pc' = "p2_sleep") => (pc = "p2_load")
     /\ (pc = "p2_sleep") => (pc' = "p2_probe" /\ pi' = 1 /\ result' = result)
     /\ (pc' = "p2_probe" /\ pc # "p2_probe") => (pc = "p2_sleep")
     /\ (pc # "p2_probe") => (result'.cmd = "probe" => result' = result)
  ]_vars

\* the wait after a successful load is over and the first probe is due
C12_Witness ==
  /\ pc = "p2_probe"
  /\ pi = 1
  /\ result = Cmd("load", lib, drive_index, 0)

(* C13: for each index the candidates are probed in pool order and the      *)
(* SlotMapping records the first one that is ready: the candidates probed   *)
(* before it were not ready and stay in the pool in their order, the pool   *)
(* loses the matched candidate only, and no further candidate is probed for *)
(* this index.                                                              *)
C13_FirstReadyInPoolOrder ==
  /\ [](pc = "p2_probe" => \A j \in 1..(pi - 1) : ~Ready(drive_byid_st_sg_lst[j]))
  /\ [][
        /\ (pc = "p2_probe" /\ pc' = "p2_probe") =>
              /\ result' = Cmd("probe", lib, drive_byid_st_sg_lst[pi], 0)
              /\ ~Ready(drive_byid_st_sg_lst[pi])
              /\ pi' = pi + 1
              /\ drive_byid_st_sg_lst' = drive_byid_st_sg_lst
        /\ (pc = "p2_probe" /\ pc' = "p2_unload") =>
              /\ result' = Cmd("probe", lib, drive_byid_st_sg_lst[pi], 0)
              /\ Ready(drive_byid_st_sg_lst[pi])
              /\ lib_dict'[lib] = Append(lib_dict[lib], <<drive_index, drive_byid_st_sg_lst[pi]>>)
              /\ drive_byid_st_sg_lst' = SubSeq(drive_byid_st_sg_lst, 1, pi - 1)
                     \o SubSeq(drive_byid_st_sg_lst, pi + 1, Len(drive_byid_st_sg_lst))
        /\ (pc = "p2_unload") => (result'.cmd # "probe")
     ]_vars

\* the first candidate of the pool was not ready and stays, the second is recorded
C13_Witness ==
  /\ pc = "p2_unload"
  /\ drive_byid_st_sg_lst = <<1>>
  /\ lib_dict[lib] = <<(<<drive_index, 2>>)>>

\* the script is inside an iteration of a drive_index loop
InIndexLoop ==
  pc \in {"p1_loaded", "p1_unload", "p2_pick", "p2_load", "p2_sleep", "p2_probe", "p2_unload"}

(* C14: every run reaches the final report or an abort, provided every      *)
(* external command returns. Inside a drive_index loop the index is below   *)
(* the drive count of the library, and every new iteration of the loop,     *)
(* after a match or without one, has the index one higher.                  *)
C14_Terminates ==
  /\ <>(pc \in {"aborted", "render"})
  /\ [](InIndexLoop => (num_drives = hwDrives[lib] /\ drive_index < num_drives))
  /\ [][
        /\ (InIndexLoop /\ pc' \in {"p1_loaded", "p2_pick"}) =>
              (drive_index' = drive_index + 1 /\ li' = li)
        /\ (InIndexLoop /\ pc' \in {"p1_unload", "p2_load", "p2_sleep", "p2_probe", "p2_unload"}) =>
              (drive_index' = drive_index /\ li' = li)
     ]_vars

\* a run that reached the report after two indices of a library without a match
C14_Witness ==
  /\ pc = "render"
  /\ drive_index = 2
  /\ result.cmd = "probe"
  /\ \A l \in Libs : lib_dict[l] = <<>>

\* the storage elements of the text that are Full with a volume that is no
\* cleaning tape
Occupied(txt) == {n \in DOMAIN txt : txt[n] = "TAPE"}

(* C15: the slot get_random_slot returns is a storage element that is Full   *)
(* with a volume tag without CLN; when exactly one such element exists,      *)
(* every call returns that element and its volume label.                     *)
C15_PickReturnsOccupiedSlot ==
  pc = "pick_done" =>
    /\ picked.outcome = "slot" => picked.slot \in Occupied(status_txt)
    /\ Cardinality(Occupied(status_txt)) = 1 =>
          /\ picked.outcome = "slot"
          /\ picked.slot \in Occupied(status_txt)
          /\ picked.vol = VolumeTag(status_txt, picked.slot)

\* the Device resource blocks the SlotMappings of library l call for
Expected(l) == {DeviceRes(lib_dict[l][k][1], lib_dict[l][k][2]) : k \in 1..Len(lib_dict[l])}

(* C16: once the rendering step is over, every library has one Device        *)
(* resource block per recorded SlotMapping, with the DriveIndex of that      *)
(* mapping and the ArchiveDevice and ControlDevice of its candidate; this    *)
(* for every mapping list, one with an unmapped index before a mapped one    *)
(* included.                                                                 *)
C16_OneDevicePerMapping ==
  pc \in {"done", "crashed"} =>
    \A l \in Libs :
      /\ Len(res_files[l]) = Len(lib_dict[l])
      /\ Range(res_files[l]) = Expected(l)

\* the transfer elements of the libraries not in the skip set that hold a tape
LoadedDrives ==
  {d \in (Libs \ libs_to_skip) \X DriveIdx : d[2] < hwDrives[d[1]] /\ bay[d[1]][d[2]] # 0}

\* Phase 1 is over and the run has not aborted
AfterPhase1 ==
  pc \in {"p2_status", "p2_pick", "p2_load", "p2_sleep", "p2_probe", "p2_unload",
          "report", "render", "done"}

(* C17: from the end of Phase 1 on, at most one drive of the libraries not   *)
(* in the skip set holds a tape, and none holds one when a Phase 2 load is   *)
(* about to be issued or when the run has completed, whether the index       *)
(* before matched a candidate or not.                                        *)
C17_AtMostOneDriveLoaded ==
  AfterPhase1 =>
    /\ Cardinality(LoadedDrives) <= 1
    /\ pc \in {"p2_load", "report", "render", "done"} => LoadedDrives = {}

(* C18: after a match at index i the next command is the unload of drive i  *)
(* to the slot its tape was loaded from, and when that unload has succeeded  *)
(* the storage elements are as they were immediately before the load for    *)
(* index i and the drive is empty.                                           *)
C18_UnloadRestoresSlots ==
  /\ [](pc = "p2_unload" => (bay[lib][drive_index] = slot /\ slots_at_load[lib][slot] = "Full"))
  /\ [][
        (pc = "p2_unload") =>
          /\ result'.cmd = "unload" /\ result'.lib = lib /\ result'.arg = drive_index
          /\ (pc' # "aborted") =>
                /\ result'.rc = 0
                /\ slots' = slots_at_load
                /\ bay' = [bay EXCEPT ![lib][drive_index] = 0]
     ]_vars

\* the unload after a match has succeeded and the next index is due
C18_Witness ==
  /\ pc = "p2_pick"
  /\ drive_index = 1
  /\ result = Cmd("unload", lib, 0, 0)
  /\ lib_dict[lib] # <<>>
  /\ slots = slots_at_load

(* C19: once the candidate pool is empty no load command is issued any more. *)
C19_NoLoadWithEmptyPool ==
  result.cmd = "load" => drive_byid_st_sg_lst # <<>>

(* C20: no command at all, a changer-status query included, is issued        *)
(* against a library of the skip set, so that no failing command on such a   *)
(* library aborts the run.                                                   *)
C20_NoCommandOnSkippedLibrary ==
  result.lib \notin libs_to_skip

(* C21: the pick enumerates all Full non-cleaning storage elements: the     *)
(* elements a call chooses among are exactly those, three-digit element     *)
(* numbers included, and a call returns a slot whenever there is one.       *)
C21_PickEnumeratesAllOccupied ==
  pc = "pick_done" =>
    /\ FindAll(GrepNotCln(status_txt, GrepFull(status_txt))) = Occupied(status_txt)
    /\ Occupied(status_txt) # {} => picked.outcome = "slot"

\* the script is in the offline pass or in Phase 1
BeforePhase2 == pc \in {"offline", "p1_status", "p1_loaded", "p1_unload"}

(* C22: Phase 1 is over for all libraries before Phase 2 starts for any: no  *)
(* load is issued up to the end of Phase 1, Phase 1 is never entered again,  *)
(* and when the first load of the run is about to be issued no drive of any  *)
(* library outside the skip set holds a tape.                                *)
C22_UnloadAllBeforeFirstLoad ==
  /\ [](BeforePhase2 => (result.cmd # "load" /\ slots_at_load = <<>>))
  /\ []((pc = "p2_load" /\ slots_at_load = <<>>) => LoadedDrives = {})
  /\ [][(~BeforePhase2) => (~BeforePhase2)']_vars

\* Phase 2 is about to start and the last command of Phase 1 was the unload
\* of the second drive of the last library
C22_Witness ==
  /\ pc = "p2_status"
  /\ li = 1
  /\ libs_to_skip = {}
  /\ result = Cmd("unload", libs_byid_nodes_lst[NumLibs], 1, 0)

\* a candidate whose drive shows the ready marker whatever Phase 2 loads: a
\* stand-alone drive with a tape, or a loaded drive of a skipped library
AlwaysReady(c) ==
  IF loc[c] = StandAlone THEN saTape[c]
  ELSE loc[c].lib \in libs_to_skip /\ bay[loc[c].lib][loc[c].idx] # 0

RECURSIVE Discover(_, _, _, _)
\* Phase 2 from index i of the j-th library on, as a function of what no step
\* of a run changes (the skip set, the drive counts, the place of every drive,
\* the tapes of the stand-alone drives and of the skipped libraries): the
\* mapping table and the pool it ends with. No slot choice enters it.
Discover(j, i, pool, dict) ==
  IF j > NumLibs THEN [dict |-> dict, pool |-> pool]
  ELSE LET l == libs_byid_nodes_lst[j] IN
       IF l \in libs_to_skip \/ i >= hwDrives[l] THEN Discover(j + 1, 0, pool, dict)
       ELSE LET hits == {k \in 1..Len(pool) :
                           loc[pool[k]] = [lib |-> l, idx |-> i] \/ AlwaysReady(pool[k])} IN
            IF hits = {} THEN Discover(j, i + 1, pool, dict)
            ELSE LET k == CHOOSE h \in hits : \A g \in hits : h <= g IN
                 Discover(j, i + 1, Remove(pool, k),
                          [dict EXCEPT ![l] = Append(@, <<i, pool[k]>>)])

(* C23: the SlotMapping lists and the residual list of a completed run are  *)
(* those fixed by the inventory and the initial hardware state alone, so    *)
(* two completed runs that differ only in their random slot choices report  *)
(* the same lists; the residual list is in ascending order.                 *)
C23_ReportIndependentOfSlotChoice ==
  pc \in {"render", "done", "crashed"} =>
    LET d == Discover(1, 0, [k \in 1..NumCands |-> k], [l \in Libs |-> <<>>]) IN
    /\ lib_dict = d.dict
    /\ drive_byid_st_sg_lst = d.pool
    /\ \A k \in 1..(Len(drive_byid_st_sg_lst) - 1) :
          drive_byid_st_sg_lst[k] < drive_byid_st_sg_lst[k + 1]

\* a completed run with two residual drives whose last load took the second
\* of two Full slots
C23_Witness ==
  /\ pc = "done"
  /\ Len(drive_byid_st_sg_lst) = 2
  /\ slot = 2
  /\ \E l \in Libs : slots_at_load # <<>> /\ FullSlots(l) = Slots /\ slots_at_load[l] = slots[l]
                      /\ result.lib = l /\ bay[l][0] = 0

\* the step is the match branch of the probe loop
PositiveMatch ==
  /\ pc = "p2_probe"
  /\ pi <= Len(drive_byid_st_sg_lst)
  /\ Ready(drive_byid_st_sg_lst[pi])
  /\ result' = Cmd("probe", lib, drive_byid_st_sg_lst[pi], 0)

StartOfLibrary == pc \in {"p1_status", "p2_status"} /\ pc' # "aborted"

(* C26: in Phase 1 and in Phase 2 the status query that starts library L    *)
(* sets the drive count to that of L's own changer, and nothing else sets   *)
(* it; the index loop of a library that is not skipped starts at 0, stays   *)
(* below that count, and is left for the next library only with the index   *)
(* equal to the count, so the indices visited for L are a prefix of         *)
(* 0..num_drives(L)-1 whatever the count of the library before.             *)
C26_DriveCountIsTheLibrarysOwn ==
  /\ [](InIndexLoop => drive_index \in 0..(hwDrives[lib] - 1))
  /\ [][
        /\ StartOfLibrary => num_drives' = hwDrives[lib]
        /\ (StartOfLibrary /\ lib \notin libs_to_skip) =>
              (drive_index' = 0 /\ InIndexLoop' /\ li' = li)
        /\ (~StartOfLibrary) => num_drives' = num_drives
        /\ (InIndexLoop /\ ~InIndexLoop' /\ pc' # "aborted") =>
              drive_index' = hwDrives[lib]
     ]_vars

\* the second library has fewer drives than the first, neither is skipped,
\* and Phase 2 left the second library after its only index
C26_Witness ==
  /\ pc = "render"
  /\ libs_to_skip = {}
  /\ hwDrives[libs_byid_nodes_lst[1]] = 2
  /\ hwDrives[libs_byid_nodes_lst[2]] = 1
  /\ num_drives = 1
  /\ drive_index = 1

(* C28: when the run aborts because an offline, an unload or a load command *)
(* returned a non-zero exit status, the exit status of the process is that  *)
(* of the command.                                                          *)
C28_ExitStatusIsTheCommands ==
  (pc = "aborted" /\ result.cmd \in {"offline", "unload", "load"}) =>
    exit_status = <<result.rc>>

\* a run that a failed load ended
C28_Witness ==
  /\ pc = "aborted"
  /\ result.cmd = "load"
  /\ result.rc \in RcFail
  /\ exit_status # <<>>

\* the by-id names of a listing
Names(txt) == {<< <<txt[k][1]>> >> : k \in 1..Len(txt)}

(* C25: when the inventory finds no library the run completes normally: it  *)
(* does not end in an uncaught exception, and it issues no changer command. *)
C25_ZeroLibrariesCompletes ==
  FindLibs(lsscsi_txt) = <<>> =>
    (pc # "crashed" /\ result.cmd \notin {"status", "pick", "load", "unload"})

(* C27: a library whose sg node has no entry in the symlink listing is left *)
(* out of the library list: once built, the list holds only by-id names of  *)
(* the listing, and the status query that opens Phase 1 goes to one of them.*)
C27_UnmatchedLibraryOmitted ==
  /\ libs_found.bound => \A k \in 1..Len(libs_found.lst) : libs_found.lst[k] \in Names(byid_txt)
  /\ result.cmd = "status" => result.lib \in Names(byid_txt)

====
